---- MODULE Spec2Model ----
(***************************************************************************)
(* The tool-call example workflow: the helper ToolCallWorkflow.isToolCall, *)
(* the tool GetWeather.execute, and the agentic loop that routes on the    *)
(* helper (ready -> prompt_executed -> ready | end).                       *)
(***************************************************************************)
EXTENDS Naturals, Sequences, FiniteSets

(***************************************************************************)
(* Bounds of the model.                                                    *)
(***************************************************************************)
\* most parts in a message given to isToolCall on its own
MaxParts == 3
\* most parts in a message the LLM collaborator returns within a run
MaxRunParts == 2
\* most LLM calls of one run
MaxTurns == 2
\* most invocations of GetWeather.execute that are compared
MaxWeatherCalls == 3

(***************************************************************************)
(* JavaScript values.  A string is the sequence of its characters, so that *)
(* String.prototype.startsWith is computed and not assumed.                *)
(***************************************************************************)
S_text == <<"t", "e", "x", "t">>
S_tool_GetWeather ==
    <<"t", "o", "o", "l", "-", "G", "e", "t", "W", "e", "a", "t", "h", "e", "r">>
S_tool_ == <<"t", "o", "o", "l", "-">>
S_tool == <<"t", "o", "o", "l">>
S_Tool_x == <<"T", "o", "o", "l", "-", "x">>
S_xtool_ == <<"x", "t", "o", "o", "l", "-">>
S_empty == <<>>

\* the part types isToolCall is tried on
TypeStrings ==
    {S_text, S_tool_GetWeather, S_tool_, S_tool, S_Tool_x, S_xtool_, S_empty}

\* the literal 'tool-' of isToolCall
ToolPrefix == <<"t", "o", "o", "l", "-">>

\* String.prototype.startsWith(prefix), position 0
startsWith(s, prefix) ==
    /\ Len(s) >= Len(prefix)
    /\ \A i \in 1..Len(prefix) : s[i] = prefix[i]

NoOutput == [type |-> "", value |-> ""]

\* a part of a message; typeOf is the JavaScript typeof of its `type` field
Part(typeOf, type, toolCallId, location, state, output) ==
    [typeOf |-> typeOf, type |-> type, toolCallId |-> toolCallId,
     location |-> location, state |-> state, output |-> output]

TextPart == Part("string", S_text, "", "", "", NoOutput)

TypedPart(type) == Part("string", type, "", "", "", NoOutput)

\* a part whose `type` is missing (typeof undefined) or not a string
UntypedPart(typeOf) == Part(typeOf, S_empty, "", "", "", NoOutput)

ToolCallPart(toolCallId, location) ==
    Part("string", S_tool_GetWeather, toolCallId, location, "input-available",
         NoOutput)

\* the JavaScript value undefined, as a message
Undefined == [kind |-> "undefined", role |-> "", hasParts |-> FALSE, parts |-> <<>>]

Message(role, parts) ==
    [kind |-> "message", role |-> role, hasParts |-> TRUE, parts |-> parts]

\* an object without a `parts` property
MessageWithoutParts ==
    [kind |-> "message", role |-> "assistant", hasParts |-> FALSE, parts |-> <<>>]

(***************************************************************************)
(* The outcome of a call: a returned value or a thrown TypeError.  A       *)
(* returned value carries its JavaScript type and its truthiness.          *)
(***************************************************************************)
Return(type, truthy) == [outcome |-> "return", type |-> type, truthy |-> truthy]
Throw == [outcome |-> "throw", type |-> "TypeError", truthy |-> FALSE]
NotCalled == [outcome |-> "none", type |-> "", truthy |-> FALSE]

\* (part) => part.type?.startsWith('tool-')
PartPredicateOptional(part) ==
    IF part.typeOf = "string"
    THEN Return("boolean", startsWith(part.type, ToolPrefix))
    ELSE Return("undefined", FALSE)

\* (part) => part.type.startsWith('tool-')
PartPredicate(part) ==
    IF part.typeOf = "string"
    THEN Return("boolean", startsWith(part.type, ToolPrefix))
    ELSE Throw

\* Array.prototype.some from index i: the first truthy result ends the scan,
\* and so does a throw of the predicate
RECURSIVE some(_, _)
some(parts, i) ==
    IF i > Len(parts)
    THEN Return("boolean", FALSE)
    ELSE LET r == PartPredicate(parts[i])
         IN  IF r.outcome = "throw" THEN Throw
             ELSE IF r.truthy THEN Return("boolean", TRUE)
             ELSE some(parts, i + 1)

\* message.parts.some(...): no optional chaining
isToolCallNoGuard(message) ==
    IF message.kind = "undefined" THEN Throw
    ELSE IF ~message.hasParts THEN Throw
    ELSE some(message.parts, 1)

\* !!message && message.parts.some(...)
isToolCallNullIsFalse(message) ==
    IF message.kind = "undefined" THEN Return("boolean", FALSE)
    ELSE IF ~message.hasParts THEN Throw
    ELSE some(message.parts, 1)

\* every(...) in place of some(...)
isToolCallEvery(message) ==
    IF message.kind = "undefined" THEN Return("undefined", FALSE)
    ELSE IF ~message.hasParts THEN Throw
    ELSE Return("boolean",
                \A i \in 1..Len(message.parts) :
                    PartPredicate(message.parts[i]).truthy)

\* message?.parts.some((part) => part.type.startsWith('tool-'))
isToolCall(message) ==
    IF message.kind = "undefined" THEN Return("undefined", FALSE)
    ELSE IF ~message.hasParts THEN Throw
    ELSE some(message.parts, 1)

(***************************************************************************)
(* GetWeather.execute                                                      *)
(***************************************************************************)
WeatherText == "Mostly sunny, 14C, rain in the afternoon."

ToolResult(type, data) == [outcome |-> "return", type |-> type, data |-> data]

\* an execute that reads its argument
executeEchoLocation(args) ==
    ToolResult("text", IF args.location = "Berlin" THEN WeatherText
                       ELSE args.location)

\* async execute(): the arguments are not read
execute(args) == ToolResult("text", WeatherText)

(***************************************************************************)
(* The collaborators of the workflow.                                      *)
(***************************************************************************)
\* the arguments the workflow gives aiGenerateText on every LLM turn
AiGenerateTextArgs ==
    [provider |-> "openai", model |-> "gpt-4o", messagesSearchTag |-> "message",
     tools |-> <<"getWeather">>]

ToolCallIds == <<"tool_call_1", "tool_call_2", "tool_call_3", "tool_call_4">>

Locations == {"Berlin", "Munich"}

\* what a part of an LLM response may be: text, or a call of GetWeather
PartKinds == {"text"} \cup Locations

RunMessage(kinds) ==
    Message("assistant",
            [i \in 1..Len(kinds) |->
                IF kinds[i] = "text" THEN TextPart
                ELSE ToolCallPart(ToolCallIds[i], kinds[i])])

\* the values result.data of the LLM collaborator may have: a message, or
\* nothing
LlmResponses ==
    {Undefined} \cup
    UNION {{RunMessage(kinds) : kinds \in [1..n -> PartKinds]} : n \in 0..MaxRunParts}

IsToolCallPart(part) ==
    /\ part.typeOf = "string"
    /\ startsWith(part.type, ToolPrefix)

ToolCallParts(message) == SelectSeq(message.parts, IsToolCallPart)

\* the dispatcher on one tool-call part: the registered tool is executed on
\* the part's input and its result becomes the part's output
DispatchPart(part) ==
    LET r == execute([location |-> part.location])
    IN  [part EXCEPT !.state = "output-available",
                     !.output = [type |-> r.type, value |-> r.data]]

\* DelegateToolCall.execute({message}): one output part per tool-call part of
\* the message, in the message's order
delegateToolCall(message) ==
    LET calls == ToolCallParts(message)
    IN  Message("assistant", [i \in 1..Len(calls) |-> DispatchPart(calls[i])])

(***************************************************************************)
(* The state of one run.                                                   *)
(***************************************************************************)
VARIABLES
    place,           \* the place of the workflow
    inflight,        \* the collaborator call the run is suspended on
    llmResponse,     \* state field llmResponse
    toolCallResult,  \* state field toolCallResult
    error,           \* result.runtime.error
    history,         \* the places visited, in order
    llmArgs,         \* the arguments of every aiGenerateText call
    llmLog,          \* the message every completed aiGenerateText call returned
    dispatchLog,     \* the message of every delegateToolCall call
    arg,             \* the argument of a call of isToolCall on its own
    result,          \* what that call did
    weatherArgs,     \* the arguments of the calls of GetWeather.execute
    weatherResults   \* what each of them returned

runVars ==
    <<place, inflight, llmResponse, toolCallResult, error, history, llmArgs,
      llmLog, dispatchLog>>
helperVars == <<arg, result>>
weatherVars == <<weatherArgs, weatherResults>>
vars == <<runVars, helperVars, weatherVars>>

\* the place a run starts in
InitialPlace == "ready"

RunInit ==
    /\ place = InitialPlace
    /\ inflight = "none"
    /\ llmResponse = Undefined
    /\ toolCallResult = Undefined
    /\ error = FALSE
    /\ history = <<InitialPlace>>
    /\ llmArgs = <<>>
    /\ llmLog = <<>>
    /\ dispatchLog = <<>>

HelperIdle ==
    /\ arg = Undefined
    /\ result = NotCalled

WeatherIdle ==
    /\ weatherArgs = <<>>
    /\ weatherResults = <<>>

Init == RunInit /\ HelperIdle /\ WeatherIdle

(***************************************************************************)
(* The transitions of the workflow.  A transition that calls a collaborator *)
(* is suspended until the call completes or fails.                          *)
(***************************************************************************)
Running == ~error /\ inflight = "none"

\* an LLM turn that is taken again after a failure
LlmTurnRetries ==
    /\ inflight = "none"
    /\ place = "ready"
    /\ Len(llmArgs) < MaxTurns
    /\ inflight' = "llm"
    /\ error' = FALSE
    /\ llmArgs' = Append(llmArgs, AiGenerateTextArgs)
    /\ UNCHANGED <<place, llmResponse, toolCallResult, history, llmLog,
                   dispatchLog>>
    /\ UNCHANGED <<helperVars, weatherVars>>

\* from ready: call aiGenerateText with the registered tools
LlmTurn ==
    /\ Running
    /\ place = "ready"
    /\ Len(llmArgs) < MaxTurns
    /\ inflight' = "llm"
    /\ llmArgs' = Append(llmArgs, AiGenerateTextArgs)
    /\ UNCHANGED <<place, llmResponse, toolCallResult, error, history, llmLog,
                   dispatchLog>>
    /\ UNCHANGED <<helperVars, weatherVars>>

\* an LLM turn without its assign
LlmTurnDoneNoAssign(message) ==
    /\ ~error
    /\ inflight = "llm"
    /\ inflight' = "none"
    /\ llmLog' = Append(llmLog, message)
    /\ place' = "prompt_executed"
    /\ history' = Append(history, "prompt_executed")
    /\ UNCHANGED <<llmResponse, toolCallResult, error, llmArgs, dispatchLog>>
    /\ UNCHANGED <<helperVars, weatherVars>>

\* assign llmResponse: ${ result.data }, then to prompt_executed
LlmTurnDone(message) ==
    /\ ~error
    /\ inflight = "llm"
    /\ inflight' = "none"
    /\ llmResponse' = message
    /\ llmLog' = Append(llmLog, message)
    /\ place' = "prompt_executed"
    /\ history' = Append(history, "prompt_executed")
    /\ UNCHANGED <<toolCallResult, error, llmArgs, dispatchLog>>
    /\ UNCHANGED <<helperVars, weatherVars>>

\* the aiGenerateText call fails: the run ends with the error flag
LlmTurnFailed ==
    /\ ~error
    /\ inflight = "llm"
    /\ inflight' = "none"
    /\ error' = TRUE
    /\ UNCHANGED <<place, llmResponse, toolCallResult, history, llmArgs, llmLog,
                   dispatchLog>>
    /\ UNCHANGED <<helperVars, weatherVars>>

\* a route_with_tool_calls without its condition
RouteConditionAlways == TRUE

\* if: "{{ isToolCall llmResponse }}"
RouteConditionOf(message) == isToolCall(message).truthy

RouteCondition == RouteConditionOf(llmResponse)

\* a route_with_tool_calls that loops back without calling delegateToolCall
RouteWithToolCallsNoDispatch ==
    /\ Running
    /\ place = "prompt_executed"
    /\ RouteCondition
    /\ place' = "ready"
    /\ history' = Append(history, "ready")
    /\ UNCHANGED <<inflight, llmResponse, toolCallResult, error, llmArgs, llmLog,
                   dispatchLog>>
    /\ UNCHANGED <<helperVars, weatherVars>>

\* a route_with_tool_calls that gives delegateToolCall one tool-call part
RouteWithToolCallsFirstPartOnly ==
    /\ Running
    /\ place = "prompt_executed"
    /\ RouteCondition
    /\ inflight' = "dispatch"
    /\ dispatchLog' =
          Append(dispatchLog,
                 Message(llmResponse.role, <<ToolCallParts(llmResponse)[1]>>))
    /\ UNCHANGED <<place, llmResponse, toolCallResult, error, history, llmArgs,
                   llmLog>>
    /\ UNCHANGED <<helperVars, weatherVars>>

\* a route_with_tool_calls that does not wait for delegateToolCall
RouteWithToolCallsFireAndForget ==
    /\ Running
    /\ place = "prompt_executed"
    /\ RouteCondition
    /\ dispatchLog' = Append(dispatchLog, llmResponse)
    /\ place' = "ready"
    /\ history' = Append(history, "ready")
    /\ UNCHANGED <<inflight, llmResponse, toolCallResult, error, llmArgs, llmLog>>
    /\ UNCHANGED <<helperVars, weatherVars>>

\* route_with_tool_calls: call delegateToolCall with message: ${ llmResponse }
RouteWithToolCalls ==
    /\ Running
    /\ place = "prompt_executed"
    /\ RouteCondition
    /\ inflight' = "dispatch"
    /\ dispatchLog' = Append(dispatchLog, llmResponse)
    /\ UNCHANGED <<place, llmResponse, toolCallResult, error, history, llmArgs,
                   llmLog>>
    /\ UNCHANGED <<helperVars, weatherVars>>

\* a route_with_tool_calls without its assign
RouteWithToolCallsDoneNoAssign ==
    /\ ~error
    /\ inflight = "dispatch"
    /\ inflight' = "none"
    /\ place' = "ready"
    /\ history' = Append(history, "ready")
    /\ UNCHANGED <<llmResponse, toolCallResult, error, llmArgs, llmLog,
                   dispatchLog>>
    /\ UNCHANGED <<helperVars, weatherVars>>

\* a route_with_tool_calls whose assign also overwrites llmResponse
RouteWithToolCallsDoneAssignsBoth ==
    /\ ~error
    /\ inflight = "dispatch"
    /\ inflight' = "none"
    /\ toolCallResult' = delegateToolCall(dispatchLog[Len(dispatchLog)])
    /\ llmResponse' = toolCallResult'
    /\ place' = "ready"
    /\ history' = Append(history, "ready")
    /\ UNCHANGED <<error, llmArgs, llmLog, dispatchLog>>
    /\ UNCHANGED <<helperVars, weatherVars>>

\* a route_with_tool_calls with to: prompt_executed
RouteWithToolCallsDoneStays ==
    /\ ~error
    /\ inflight = "dispatch"
    /\ inflight' = "none"
    /\ toolCallResult' = delegateToolCall(dispatchLog[Len(dispatchLog)])
    /\ history' = Append(history, "prompt_executed")
    /\ UNCHANGED <<place, llmResponse, error, llmArgs, llmLog, dispatchLog>>
    /\ UNCHANGED <<helperVars, weatherVars>>

\* assign toolCallResult: ${ result.data }, then back to ready
RouteWithToolCallsDone ==
    /\ ~error
    /\ inflight = "dispatch"
    /\ inflight' = "none"
    /\ toolCallResult' = delegateToolCall(dispatchLog[Len(dispatchLog)])
    /\ place' = "ready"
    /\ history' = Append(history, "ready")
    /\ UNCHANGED <<llmResponse, error, llmArgs, llmLog, dispatchLog>>
    /\ UNCHANGED <<helperVars, weatherVars>>

\* the delegateToolCall call fails: the run ends with the error flag
RouteWithToolCallsFailed ==
    /\ ~error
    /\ inflight = "dispatch"
    /\ inflight' = "none"
    /\ error' = TRUE
    /\ UNCHANGED <<place, llmResponse, toolCallResult, history, llmArgs, llmLog,
                   dispatchLog>>
    /\ UNCHANGED <<helperVars, weatherVars>>

\* a route_without_tool_calls with to: ready
RouteWithoutToolCallsLoops ==
    /\ Running
    /\ place = "prompt_executed"
    /\ ~RouteCondition
    /\ place' = "ready"
    /\ history' = Append(history, "ready")
    /\ UNCHANGED <<inflight, llmResponse, toolCallResult, error, llmArgs, llmLog,
                   dispatchLog>>
    /\ UNCHANGED <<helperVars, weatherVars>>

\* a route_without_tool_calls that also ends the run after one iteration
RouteWithoutToolCallsMaxIterations ==
    /\ Running
    /\ place = "prompt_executed"
    /\ (~RouteCondition \/ Len(dispatchLog) >= 1)
    /\ place' = "end"
    /\ history' = Append(history, "end")
    /\ UNCHANGED <<inflight, llmResponse, toolCallResult, error, llmArgs, llmLog,
                   dispatchLog>>
    /\ UNCHANGED <<helperVars, weatherVars>>

\* a route_without_tool_calls that applies whatever the transition before it
RouteWithoutToolCallsUnconditional ==
    /\ Running
    /\ place = "prompt_executed"
    /\ place' = "end"
    /\ history' = Append(history, "end")
    /\ UNCHANGED <<inflight, llmResponse, toolCallResult, error, llmArgs, llmLog,
                   dispatchLog>>
    /\ UNCHANGED <<helperVars, weatherVars>>

\* route_without_tool_calls: no condition of its own; taken when the
\* transition listed before it does not apply
RouteWithoutToolCalls ==
    /\ Running
    /\ place = "prompt_executed"
    /\ ~RouteCondition
    /\ place' = "end"
    /\ history' = Append(history, "end")
    /\ UNCHANGED <<inflight, llmResponse, toolCallResult, error, llmArgs, llmLog,
                   dispatchLog>>
    /\ UNCHANGED <<helperVars, weatherVars>>

Next ==
    \/ LlmTurn
    \/ \E message \in LlmResponses : LlmTurnDone(message)
    \/ LlmTurnFailed
    \/ RouteWithToolCalls
    \/ RouteWithToolCallsDone
    \/ RouteWithToolCallsFailed
    \/ RouteWithoutToolCalls

Spec == Init /\ [][Next]_vars

\* a transition that can be taken is taken, and a call that is not failing
\* completes
Fairness ==
    /\ WF_vars(LlmTurn)
    /\ WF_vars(\E message \in LlmResponses : LlmTurnDone(message))
    /\ WF_vars(RouteWithToolCalls)
    /\ WF_vars(RouteWithToolCallsDone)
    /\ WF_vars(RouteWithoutToolCalls)

FairSpec == Spec /\ Fairness

(***************************************************************************)
(* isToolCall on its own, on every input up to MaxParts parts.             *)
(***************************************************************************)
HelperParts ==
    {TypedPart(type) : type \in TypeStrings}
        \cup {UntypedPart("undefined"), UntypedPart("number")}

HelperMessages ==
    UNION {{Message("assistant", parts) : parts \in [1..n -> HelperParts]} :
           n \in 0..MaxParts}

HelperInputs == {Undefined, MessageWithoutParts} \cup HelperMessages

HelperInit ==
    /\ RunInit
    /\ WeatherIdle
    /\ arg \in HelperInputs
    /\ result = NotCalled

CallIsToolCall ==
    /\ result = NotCalled
    /\ result' = isToolCall(arg)
    /\ UNCHANGED <<arg, runVars, weatherVars>>

HelperNext == CallIsToolCall

HelperSpec == HelperInit /\ [][HelperNext]_vars

(***************************************************************************)
(* GetWeather.execute on its own, on every valid location.                 *)
(***************************************************************************)
ValidLocations == {"Berlin", "Munich", "Paris", "Rome", ""}

CallGetWeather(location) ==
    /\ Len(weatherArgs) < MaxWeatherCalls
    /\ weatherArgs' = Append(weatherArgs, [location |-> location])
    /\ weatherResults' = Append(weatherResults, execute([location |-> location]))
    /\ UNCHANGED <<runVars, helperVars>>

WeatherNext == \E location \in ValidLocations : CallGetWeather(location)

WeatherSpec == Init /\ [][WeatherNext]_vars

(***************************************************************************)
(* Properties of isToolCall (HelperSpec).                                  *)
(***************************************************************************)
Called == result # NotCalled

\* a message of the data model: present, with a part sequence whose parts
\* are all tagged by a type string
IsMessage(m) ==
    /\ m.kind = "message"
    /\ m.hasParts
    /\ \A i \in 1..Len(m.parts) : m.parts[i].typeOf = "string"

\* the type begins with the five characters t o o l -
BeginsWithTool(type) ==
    /\ Len(type) >= 5
    /\ SubSeq(type, 1, 5) = <<"t", "o", "o", "l", "-">>

AnyToolPart(m) == \E i \in 1..Len(m.parts) : BeginsWithTool(m.parts[i].type)

\* C1: on a message with a part sequence, isToolCall returns true if and only
\* if some part's type starts with "tool-": false on the empty sequence and
\* when no part is such a part, true when one is, wherever it sits.
C1_TrueIffSomeToolPart ==
    (Called /\ IsMessage(arg)) =>
        /\ result.outcome = "return"
        /\ result.type = "boolean"
        /\ result.truthy <=> AnyToolPart(arg)
        /\ (arg.parts = <<>>) => ~result.truthy

C1_Witness ==
    /\ Called
    /\ IsMessage(arg)
    /\ Len(arg.parts) = 3
    /\ arg.parts[1].type = S_text
    /\ arg.parts[2].type = S_tool
    /\ arg.parts[3].type = S_tool_GetWeather
    /\ result = Return("boolean", TRUE)

\* C2: on an absent message isToolCall raises no error and returns a falsy
\* value, so a route conditioned on it is not taken.
C2_UndefinedIsFalsy ==
    (Called /\ arg = Undefined) =>
        /\ result.outcome = "return"
        /\ ~result.truthy
        /\ ~RouteConditionOf(arg)

C2_Witness ==
    /\ Called
    /\ arg = Undefined
    /\ result.outcome = "return"

\* C3 as claimed: on a message or undefined, the result is a boolean.
C3_AlwaysBoolean ==
    (Called /\ (arg = Undefined \/ IsMessage(arg))) =>
        /\ result.outcome = "return"
        /\ result.type = "boolean"

\* C3, amended: on a message the result is exactly true or false; on
\* undefined the result is undefined, which is falsy and not a boolean.
C3_BooleanOnMessageUndefinedOnUndefined ==
    /\ (Called /\ IsMessage(arg)) =>
          (result.outcome = "return" /\ result.type = "boolean")
    /\ (Called /\ arg = Undefined) => result = Return("undefined", FALSE)

C3_Witness ==
    /\ Called
    /\ arg = Undefined
    /\ result.type = "undefined"

(***************************************************************************)
(* Properties of GetWeather.execute (WeatherSpec).                         *)
(***************************************************************************)
\* C4: every invocation of GetWeather.execute returns exactly
\* {type: "text", data: "Mostly sunny, 14C, rain in the afternoon."}; the
\* location does not matter, no invocation fails, and the state of the run is
\* left as it was.
C4_FixedResult ==
    /\ Len(weatherResults) = Len(weatherArgs)
    /\ \A i \in 1..Len(weatherResults) :
          weatherResults[i] =
              [outcome |-> "return", type |-> "text",
               data |-> "Mostly sunny, 14C, rain in the afternoon."]
    /\ \A i, j \in 1..Len(weatherResults) : weatherResults[i] = weatherResults[j]
    /\ RunInit

C4_Witness ==
    /\ Len(weatherResults) >= 2
    /\ weatherArgs[1].location = "Berlin"
    /\ weatherArgs[2].location = "Munich"

(***************************************************************************)
(* Properties of the loop (Spec, FairSpec).                                *)
(***************************************************************************)
ToolPartCount(m) ==
    Cardinality({i \in 1..Len(m.parts) : BeginsWithTool(m.parts[i].type)})

OnlyText(m) ==
    /\ m.kind = "message"
    /\ Len(m.parts) >= 1
    /\ \A i \in 1..Len(m.parts) : m.parts[i].type = S_text

ReadyVisits == Cardinality({i \in 1..Len(history) : history[i] = "ready"})

\* C5: when the first LLM response has exactly one tool-call part and the
\* second has only text, the run is LLM call, dispatch, LLM call, end: the
\* places visited are ready, prompt_executed, ready, prompt_executed, end,
\* with two LLM calls, one dispatch, of the first response, and no error.
C5_OneToolCallThenText ==
    (/\ Len(llmLog) >= 2
     /\ ToolPartCount(llmLog[1]) = 1
     /\ OnlyText(llmLog[2])) =>
        /\ Len(llmArgs) = 2
        /\ Len(llmLog) = 2
        /\ dispatchLog = <<llmLog[1]>>
        /\ error = FALSE
        /\ inflight = "none"
        /\ \/ /\ place = "prompt_executed"
              /\ history = <<"ready", "prompt_executed", "ready", "prompt_executed">>
           \/ /\ place = "end"
              /\ history =
                    <<"ready", "prompt_executed", "ready", "prompt_executed", "end">>

C5_Witness ==
    /\ place = "end"
    /\ Len(llmLog) = 2
    /\ ToolPartCount(llmLog[1]) = 1
    /\ OnlyText(llmLog[2])
    /\ Len(dispatchLog) = 1

\* C6: when the first LLM response has no part whose type starts with
\* "tool-", the run makes one LLM call and no dispatch and goes ready,
\* prompt_executed, end: ready is visited once and there is no error.
C6_NoToolCallGoesToEnd ==
    (/\ Len(llmLog) >= 1
     /\ ToolPartCount(llmLog[1]) = 0) =>
        /\ Len(llmArgs) = 1
        /\ Len(llmLog) = 1
        /\ dispatchLog = <<>>
        /\ error = FALSE
        /\ inflight = "none"
        /\ ReadyVisits = 1
        /\ \/ place = "prompt_executed" /\ history = <<"ready", "prompt_executed">>
           \/ place = "end" /\ history = <<"ready", "prompt_executed", "end">>

C6_Witness ==
    /\ place = "end"
    /\ Len(llmLog) = 1
    /\ OnlyText(llmLog[1])
    /\ history = <<"ready", "prompt_executed", "end">>

\* the tool-call parts of m, in order (by their positions in m)
RECURSIVE ToolPartsFrom(_, _)
ToolPartsFrom(m, i) ==
    IF i > Len(m.parts) THEN <<>>
    ELSE IF BeginsWithTool(m.parts[i].type)
         THEN <<m.parts[i]>> \o ToolPartsFrom(m, i + 1)
         ELSE ToolPartsFrom(m, i + 1)

\* r answers m: one output part per tool-call part of m, same order, same ids
Answers(r, m) ==
    LET calls == ToolPartsFrom(m, 1)
    IN  /\ r.kind = "message"
        /\ Len(r.parts) = Len(calls)
        /\ \A j \in 1..Len(calls) :
              /\ r.parts[j].toolCallId = calls[j].toolCallId
              /\ r.parts[j].location = calls[j].location
              /\ r.parts[j].type = calls[j].type
              /\ r.parts[j].state = "output-available"
              /\ r.parts[j].output # NoOutput

\* C7: a response with several tool-call parts is dispatched in one call, of
\* the whole response; the result has one output part per tool-call part, in
\* the same order and with the same ids; and the next LLM call is issued only
\* after that result is there, so that a run that ends has made one LLM call
\* more than dispatches.
C7_OneDispatchPerResponse ==
    /\ Len(dispatchLog) <= Len(llmLog)
    /\ \A i \in 1..Len(dispatchLog) : dispatchLog[i] = llmLog[i]
    /\ (Len(llmArgs) > Len(dispatchLog) /\ Len(dispatchLog) >= 1) =>
          Answers(toolCallResult, dispatchLog[Len(dispatchLog)])
    /\ Len(llmArgs) <= Len(dispatchLog) + 1
    /\ (place = "end") => Len(llmArgs) = Len(dispatchLog) + 1

C7_Witness ==
    /\ place = "end"
    /\ Len(dispatchLog) = 1
    /\ ToolPartCount(dispatchLog[1]) = 2
    /\ dispatchLog[1].parts[1].location = "Berlin"
    /\ dispatchLog[1].parts[2].location = "Munich"
    /\ Len(toolCallResult.parts) = 2
    /\ toolCallResult.parts[1].toolCallId = "tool_call_1"
    /\ toolCallResult.parts[2].toolCallId = "tool_call_2"

\* C8: in prompt_executed the dispatcher is called if and only if isToolCall
\* is true of the latest LLM response: then it is called with that response,
\* its result becomes the latest tool-call result and the next place is
\* ready; otherwise nothing is dispatched and the next place is end.
C8_DispatchIffToolCall ==
    [][/\ (place = "prompt_executed" /\ inflight = "none") =>
            IF AnyToolPart(llmResponse)
            THEN /\ inflight' = "dispatch"
                 /\ dispatchLog' = Append(dispatchLog, llmResponse)
                 /\ place' = "prompt_executed"
            ELSE /\ inflight' = "none"
                 /\ dispatchLog' = dispatchLog
                 /\ place' = "end"
       /\ (inflight = "dispatch" /\ ~error') =>
            /\ place' = "ready"
            /\ toolCallResult' = delegateToolCall(dispatchLog[Len(dispatchLog)])
            /\ llmResponse' = llmResponse
            /\ dispatchLog' = dispatchLog
       /\ (dispatchLog' # dispatchLog) =>
            (place = "prompt_executed" /\ AnyToolPart(llmResponse))
      ]_vars

C8_Witness ==
    /\ place = "ready"
    /\ Len(dispatchLog) = 1
    /\ Len(llmLog) = 1
    /\ toolCallResult # Undefined
    /\ inflight = "none"
    /\ ~error

\* C9: once the LLM has returned a response without a tool-call part, the
\* run reaches end; and end is terminal: no LLM call, dispatch or transition
\* follows it.
C9_ReachesEndAndStops ==
    /\ (place = "prompt_executed" /\ ~AnyToolPart(llmResponse)) ~> (place = "end")
    /\ [][(place = "end") => UNCHANGED vars]_vars

C9_Witness ==
    /\ place = "end"
    /\ Len(llmLog) = MaxTurns
    /\ Len(dispatchLog) = MaxTurns - 1
    /\ ~AnyToolPart(llmResponse)

\* C10: from ready the LLM collaborator is called once, with the tool set
\* <<getWeather>>; the message it returns becomes the latest LLM response and
\* the place becomes prompt_executed, whatever the message is.
C10_ReadyCallsLlmThenPromptExecuted ==
    [][/\ Len(llmArgs) <= Len(llmLog) + 1
       /\ (llmArgs' # llmArgs) =>
            /\ place = "ready"
            /\ inflight = "none"
            /\ inflight' = "llm"
            /\ place' = "ready"
            /\ Len(llmArgs') = Len(llmArgs) + 1
            /\ llmArgs'[Len(llmArgs')].tools = <<"getWeather">>
       /\ (place = "ready" /\ inflight = "none") => llmArgs' # llmArgs
       /\ (inflight = "llm" /\ ~error') =>
            /\ place' = "prompt_executed"
            /\ Len(llmLog') = Len(llmLog) + 1
            /\ llmResponse' = llmLog'[Len(llmLog')]
       /\ (place = "ready" /\ place' # "ready") => place' = "prompt_executed"
      ]_vars

C10_Witness ==
    /\ place = "prompt_executed"
    /\ Len(llmArgs) = 2
    /\ llmResponse = llmLog[2]
    /\ llmResponse # llmLog[1]

\* every response the LLM has returned so far has a tool-call part
AllToolResponses == \A i \in 1..Len(llmLog) : AnyToolPart(llmLog[i])

\* the dispatches that have completed: each one led back to ready
DispatchesDone == ReadyVisits - 1

\* the latest dispatch has completed and its result is the tool-call result
LatestDispatchStored ==
    /\ DispatchesDone = Len(dispatchLog)
    /\ (Len(dispatchLog) >= 1) =>
          toolCallResult = delegateToolCall(dispatchLog[Len(dispatchLog)])

\* C11: the loop has no iteration bound of its own.  While every LLM response
\* has a tool-call part the run alternates ready and prompt_executed and is not
\* in end; the next step of the loop is always possible (the LLM call up to
\* the model's MaxTurns), so the LLM calls and the dispatches both reach every
\* number up to MaxTurns.
C11_NoIterationBound ==
    AllToolResponses =>
        /\ place # "end"
        /\ \A i \in 1..Len(history) :
              history[i] = IF i % 2 = 1 THEN "ready" ELSE "prompt_executed"
        /\ (Running /\ place = "prompt_executed") => ENABLED RouteWithToolCalls
        /\ (Running /\ place = "ready" /\ Len(llmArgs) < MaxTurns) =>
              ENABLED LlmTurn
        /\ (Running /\ place = "ready") => Len(dispatchLog) = Len(llmArgs)

C11_Witness ==
    /\ AllToolResponses
    /\ Running
    /\ place = "ready"
    /\ Len(llmArgs) = MaxTurns
    /\ Len(dispatchLog) = MaxTurns

\* C12: the steps of a run are strictly sequential.  At most one collaborator
\* call is in flight; the detector is evaluated (a route is taken) only when
\* the LLM call has completed and its response is stored; the next LLM call
\* starts only when the dispatch has completed and its result is stored.
C12_StrictlySequential ==
    [][/\ inflight \in {"none", "llm", "dispatch"}
       /\ (inflight = "llm") =>
            /\ Len(llmArgs) = Len(llmLog) + 1
            /\ DispatchesDone = Len(dispatchLog)
       /\ (inflight = "dispatch") =>
            /\ Len(llmArgs) = Len(llmLog)
            /\ DispatchesDone + 1 = Len(dispatchLog)
       /\ (dispatchLog' # dispatchLog \/ (place # "end" /\ place' = "end")) =>
            /\ inflight = "none"
            /\ Len(llmLog) = Len(llmArgs)
            /\ Len(llmLog) >= 1
            /\ llmResponse = llmLog[Len(llmLog)]
       /\ (llmArgs' # llmArgs) =>
            /\ inflight = "none"
            /\ Len(llmLog) = Len(llmArgs)
            /\ LatestDispatchStored
      ]_vars

C12_Witness ==
    /\ inflight = "llm"
    /\ Len(llmArgs) = 2
    /\ Len(dispatchLog) = 1
    /\ LatestDispatchStored
    /\ Len(toolCallResult.parts) = 2

\* C13: llmResponse changes only when an LLM call completes and
\* toolCallResult only when a dispatch completes; a completing dispatch
\* leaves llmResponse, a completing LLM call leaves toolCallResult, and a
\* route's condition and the transition to end leave both.
C13_DisjointWriters ==
    [][/\ (llmResponse' # llmResponse) =>
            (inflight = "llm" /\ Len(llmLog') = Len(llmLog) + 1)
       /\ (toolCallResult' # toolCallResult) =>
            (inflight = "dispatch" /\ inflight' = "none" /\ ~error')
       /\ (inflight = "dispatch") => llmResponse' = llmResponse
       /\ (inflight = "llm") => toolCallResult' = toolCallResult
       /\ (inflight = "none") =>
            (llmResponse' = llmResponse /\ toolCallResult' = toolCallResult)
      ]_vars

C13_Witness ==
    /\ place = "end"
    /\ Len(llmLog) = 2
    /\ llmResponse = llmLog[2]
    /\ toolCallResult = delegateToolCall(llmLog[1])
    /\ toolCallResult # Undefined
    /\ llmResponse # Undefined

\* the LLM calls that have completed or are in flight
LlmAccounted == Len(llmLog) + (IF inflight = "llm" THEN 1 ELSE 0)

\* the dispatches that have completed or are in flight
DispatchesAccounted == DispatchesDone + (IF inflight = "dispatch" THEN 1 ELSE 0)

\* C14: a failed LLM call or dispatch ends the run with the error flag: the
\* flag is set exactly when one call has failed, nothing is retried, no call
\* or transition follows, and end is not reached; a run without a failed call
\* has the flag false, also in end.
C14_FailureEndsRun ==
    /\ [](/\ (~error) =>
               /\ Len(llmArgs) = LlmAccounted
               /\ Len(dispatchLog) = DispatchesAccounted
          /\ error =>
               /\ inflight = "none"
               /\ place # "end"
               /\ Len(llmArgs) + Len(dispatchLog) =
                     LlmAccounted + DispatchesAccounted + 1
          /\ (place = "end") => ~error)
    /\ [][error => UNCHANGED vars]_vars
    /\ [][(error' /\ ~error) => (inflight # "none" /\ place' = place)]_vars

C14_Witness ==
    /\ error
    /\ place = "ready"
    /\ Len(llmArgs) = 2
    /\ Len(llmLog) = 1
    /\ Len(dispatchLog) = 1
    /\ toolCallResult # Undefined

\* the response of index i has been routed: a route out of prompt_executed
\* has been taken on it
Routed(i) == i < Len(llmLog) \/ ~(Running /\ place = "prompt_executed")

RoutedToolResponses ==
    Cardinality({i \in 1..Len(llmLog) : AnyToolPart(llmLog[i]) /\ Routed(i)})

\* C15: the dispatch calls are as many as the routed LLM responses with a
\* tool-call part, so dispatches <= LLM calls <= dispatches + 1; in end the
\* LLM calls are the dispatches plus one.
C15_DispatchesCountToolResponses ==
    /\ Len(dispatchLog) = RoutedToolResponses
    /\ Len(dispatchLog) <= Len(llmArgs)
    /\ Len(llmArgs) <= Len(dispatchLog) + 1
    /\ (place = "end") => Len(llmArgs) = Len(dispatchLog) + 1

C15_Witness ==
    /\ Running
    /\ place = "prompt_executed"
    /\ Len(llmLog) = 2
    /\ AnyToolPart(llmLog[1])
    /\ AnyToolPart(llmLog[2])
    /\ Len(dispatchLog) = 1

\* C16: of the two transitions out of prompt_executed exactly one applies:
\* route_with_tool_calls when the response has a tool-call part,
\* route_without_tool_calls when it has none.  So in end the latest LLM
\* response has no part whose type starts with "tool-".
C16_RoutesExclusive ==
    /\ ~(ENABLED RouteWithToolCalls /\ ENABLED RouteWithoutToolCalls)
    /\ (Running /\ place = "prompt_executed") =>
          /\ ENABLED RouteWithToolCalls <=> AnyToolPart(llmResponse)
          /\ ENABLED RouteWithoutToolCalls <=> ~AnyToolPart(llmResponse)
    /\ (place = "end") =>
          /\ Len(llmLog) >= 1
          /\ llmResponse = llmLog[Len(llmLog)]
          /\ ~AnyToolPart(llmResponse)

C16_Witness ==
    /\ place = "end"
    /\ Len(llmLog) = 2
    /\ ToolPartCount(llmLog[1]) = 2
    /\ llmResponse = llmLog[2]
    /\ llmResponse.kind = "message"
    /\ llmResponse.parts = <<>>

\* the evaluations of the detector so far: one per route taken
Evaluations == Len(dispatchLog) + (IF place = "end" THEN 1 ELSE 0)

\* C17: every LLM response is routed once.  Back in ready llmResponse is still
\* the dispatched message and no route applies to it; a route is taken only on
\* the response of an LLM call completed since the route before, so no
\* response is dispatched twice and none is routed before the first LLM call
\* has stored one.
C17_RoutedExactlyOnce ==
    /\ [](/\ Evaluations <= Len(llmLog)
          /\ Len(dispatchLog) <= Len(llmLog)
          /\ \A i \in 1..Len(dispatchLog) : dispatchLog[i] = llmLog[i]
          /\ (place = "ready" /\ Len(dispatchLog) >= 1) =>
                /\ llmResponse = dispatchLog[Len(dispatchLog)]
                /\ AnyToolPart(llmResponse)
                /\ ~ENABLED RouteWithToolCalls
                /\ ~ENABLED RouteWithoutToolCalls
          /\ (Len(llmLog) = 0) =>
                (~ENABLED RouteWithToolCalls /\ ~ENABLED RouteWithoutToolCalls))
    /\ [][(dispatchLog' # dispatchLog \/ (place # "end" /\ place' = "end")) =>
            /\ Len(llmLog) = Evaluations + 1
            /\ llmResponse = llmLog[Len(llmLog)]]_vars

C17_Witness ==
    /\ Running
    /\ place = "ready"
    /\ Len(llmArgs) = 1
    /\ Len(dispatchLog) = 1
    /\ llmResponse = dispatchLog[1]
    /\ toolCallResult = delegateToolCall(llmResponse)

(***************************************************************************)
(* The inputs isToolCall does not guard against (HelperSpec).              *)
(***************************************************************************)
Untyped(m, i) == m.parts[i].typeOf # "string"

HasUntypedPart(m) == \E i \in 1..Len(m.parts) : Untyped(m, i)

\* the position of the first part of m without a string type
FirstUntyped(m) ==
    CHOOSE i \in 1..Len(m.parts) :
        Untyped(m, i) /\ \A j \in 1..(i - 1) : ~Untyped(m, j)

\* a part whose type starts with "tool-" sits before the first untyped part
ToolPartBeforeUntyped(m) ==
    \E j \in 1..(FirstUntyped(m) - 1) :
        m.parts[j].typeOf = "string" /\ BeginsWithTool(m.parts[j].type)

\* C18 as claimed: only an absent message is guarded; a message without a
\* part sequence, or with a part without a string type, raises an error.
C18_MalformedAlwaysThrows ==
    /\ (Called /\ arg = Undefined) => result.outcome = "return"
    /\ (Called /\ arg.kind = "message" /\ (~arg.hasParts \/ HasUntypedPart(arg))) =>
          result.outcome = "throw"

\* C18, amended: only an absent message is guarded.  A message without a part
\* sequence raises an error; a message with a part without a string type
\* raises an error unless a part whose type starts with "tool-" comes before
\* the first such part, and then the result is true.
C18_MalformedThrowsUnlessToolPartFirst ==
    /\ (Called /\ arg = Undefined) => result.outcome = "return"
    /\ (Called /\ arg.kind = "message" /\ ~arg.hasParts) => result = Throw
    /\ (Called /\ arg.kind = "message" /\ arg.hasParts /\ HasUntypedPart(arg)) =>
          IF ToolPartBeforeUntyped(arg)
          THEN result = Return("boolean", TRUE)
          ELSE result = Throw

C18_Witness ==
    /\ Called
    /\ arg.kind = "message"
    /\ Len(arg.parts) = 2
    /\ arg.parts[1].type = S_text
    /\ arg.parts[2].typeOf = "undefined"
    /\ result = Throw

====
